---- MODULE Spec2Model ----
(***************************************************************************)
(* Model of the asset collector cloud functions:                           *)
(*   - the pagination engines lib.safe_list (throttled) and main.safe_list *)
(*   - the export entry point main.export_assets                           *)
(*   - the poll entry point main.gcs_to_pubsub and the drain               *)
(*     main.process_gcs_directory                                          *)
(* Strings that the code takes apart (URIs, object paths) are sequences of *)
(* tokens in which "/" is a token of its own; page tokens are naturals and *)
(* the empty page token "" is 0.                                           *)
(***************************************************************************)
EXTENDS Integers, Sequences, FiniteSets, TLC

VARIABLES
    \* ---- pagination engine (one running generator) ----
    engine,          \* "lib" or "main": which safe_list is running
    upstream,        \* the listing API: request cursor -> page (a dict)
    initial_kwargs,  \* list_kwargs as passed by the caller
    list_kwargs,     \* the request dict, updated in place by the loop
    max_depth,       \* the max_depth argument
    i,               \* loop variable of `for i in range(max_depth)`
    pc,              \* position of the generator
    result,          \* the page returned by the last list call
    ri,              \* position in the page's items of the next yield
    yielded,         \* items handed to the consumer so far
    calls,           \* the request dict of every list call issued, in order
    pauses,          \* the time.sleep calls made: [after |-> calls issued, secs |-> s]
    recent,          \* age in seconds of every list call issued less than
                     \* WindowDuration seconds ago, oldest first
    slack,           \* seconds of latency the environment may still add
    \* ---- export_assets (concurrent invocations over shared services) ----
    OUTPUT_BUCKET,   \* os.environ["OUTPUT_BUCKET"].strip()
    clock,           \* UTC time, in ticks of 1/TicksPerSecond s
    jobs,            \* export jobs the asset service accepted, in order
    storage,         \* objects in Cloud Storage: [bucket, name, body]
    tasks,           \* tasks created in the Cloud Tasks queue
    inv,             \* per invocation of export_assets: its locals and position
    \* ---- gcs_to_pubsub and process_gcs_directory (deliveries of a poll task) ----
    operations,      \* long-running operations of the asset service: handle -> response
    topic,           \* the messages handed to publisher.publish, in order
    acked,           \* how many messages of the topic Pub/Sub has acknowledged
    gp,              \* per delivery of the poll task: its locals and position
    \* ---- rest_of_assets ----
    PARENT,          \* os.environ["PARENT"]
    roa             \* the invocation of rest_of_assets: its locals and position

listVars == <<engine, upstream, initial_kwargs, list_kwargs, max_depth, i, pc,
              result, ri, yielded, calls, pauses, recent, slack>>

exportVars == <<OUTPUT_BUCKET, clock, jobs, storage, tasks, inv>>

drainVars == <<operations, topic, acked, gp>>

restVars == <<PARENT, roa>>

vars == <<listVars, exportVars, drainVars, restVars>>

----------------------------------------------------------------------------
(* Program constants *)

EmptyToken == 0
CallsPerWindow == 95
WindowDuration == 60
DefaultMaxDepth == 1000

(* Bounds of the model *)

MaxDepth == 3
MaxItems == 2
ThrottlePages == 200
MaxSlow == 1
MaxClock == 2
TicksPerSecond == 2
MaxBlobs == 2
MaxAttempts == 3

Tokens == 1..2
Engines == {"lib", "main"}

----------------------------------------------------------------------------
(* Dict helpers *)

\* d.get(k, default)
Get(d, k, default) == IF k \in DOMAIN d THEN d[k] ELSE default

\* d[k] = v
SetKey(d, k, v) == [x \in (DOMAIN d) \cup {k} |-> IF x = k THEN v ELSE d[x]]

----------------------------------------------------------------------------
(* The fake upstream source: a fixed table from request cursor to page.    *)
(* A request without pageToken asks for the first page.                    *)

CursorIgnored(kwargs) == EmptyToken

\* the page a request asks for
Cursor(kwargs) == Get(kwargs, "pageToken", EmptyToken)

Serve(u, kwargs) == u[Cursor(kwargs)]

PageItems(c, n) == [j \in 1..n |-> [page |-> c, n |-> j]]

\* every page the table may hold for cursor c: the key present or not, the
\* nextPageToken present or not, empty or a token
PagesAt(c) ==
    LET keyed == {[accounts |-> PageItems(c, n)] : n \in 1..MaxItems}
        bare  == {[kind |-> "list"]}
        base  == keyed \cup bare
    IN  base \cup {SetKey(b, "nextPageToken", t) : b \in base, t \in {EmptyToken} \cup Tokens}

Upstreams ==
    {(EmptyToken :> p0) @@ (1 :> p1) @@ (2 :> p2) :
        p0 \in PagesAt(EmptyToken), p1 \in PagesAt(1), p2 \in PagesAt(2)}

\* a source of n pages, page k naming page k+1; the first page holds one item
\* and the others come without the key
ChainUpstream(n) ==
    [c \in 0..(n - 1) |->
        LET body == IF c = 0 THEN [accounts |-> PageItems(c, 1)] ELSE [kind |-> "list"]
        IN  IF c + 1 < n THEN SetKey(body, "nextPageToken", c + 1) ELSE body]

----------------------------------------------------------------------------
(* safe_list *)

\* range(max_depth) still holds n
InRangeInclusive(n, depth) == n <= depth

InRange(n, depth) == n < depth

MustSleepEither(e, n) == n % CallsPerWindow = 0 /\ n # 0

MustSleepFromZero(e, n) == e = "lib" /\ n % CallsPerWindow = 0

\* lib.safe_list: `if i % 95 == 0 and i != 0`; main.safe_list has no such test
MustSleep(e, n) == e = "lib" /\ n % CallsPerWindow = 0 /\ n # 0

SleepTooShort == WindowDuration - 1

\* time.sleep(60)
SleepSeconds == 60

\* the call log after s seconds: ages grow, calls older than the window leave
Aged(log, s) ==
    LET InWindow(a) == a < WindowDuration
    IN  SelectSeq([k \in 1..Len(log) |-> log[k] + s], InWindow)

LastPageWhenAbsent(page) == "nextPageToken" \notin DOMAIN page

\* result.get("nextPageToken", "") == ""
LastPage(page) == Get(page, "nextPageToken", EmptyToken) = EmptyToken

\* result.get(key, [])
ItemsOf(page) == Get(page, "accounts", <<>>)

NextRequestStale(kwargs, page) == kwargs

\* list_kwargs["pageToken"] = result["nextPageToken"]
NextRequest(kwargs, page) == SetKey(kwargs, "pageToken", page.nextPageToken)

\* `for i in range(max_depth)`: the loop head, with lib's sleep before the call
ForLoop ==
    /\ pc = "for"
    /\ IF InRange(i, max_depth)
         THEN /\ pc' = "list"
              /\ IF MustSleep(engine, i)
                   THEN /\ pauses' = Append(pauses, [after |-> Len(calls), secs |-> SleepSeconds])
                        /\ recent' = Aged(recent, SleepSeconds)
                   ELSE UNCHANGED <<pauses, recent>>
         ELSE /\ pc' = "raised"
              /\ UNCHANGED <<pauses, recent>>
    /\ UNCHANGED <<engine, upstream, initial_kwargs, list_kwargs, max_depth, i,
                   result, ri, yielded, calls, slack>>
    /\ UNCHANGED <<exportVars, drainVars, restVars>>

\* result = resource.list(**list_kwargs).execute()
ListCall ==
    /\ pc = "list"
    /\ result' = Serve(upstream, list_kwargs)
    /\ calls' = Append(calls, list_kwargs)
    /\ recent' = Append(recent, 0)
    /\ ri' = 1
    /\ pc' = "yield"
    /\ UNCHANGED <<engine, upstream, initial_kwargs, list_kwargs, max_depth, i,
                   yielded, pauses, slack>>
    /\ UNCHANGED <<exportVars, drainVars, restVars>>

\* for r in result.get(key, []): yield r
YieldItem ==
    /\ pc = "yield"
    /\ ri <= Len(ItemsOf(result))
    /\ yielded' = Append(yielded, ItemsOf(result)[ri])
    /\ ri' = ri + 1
    /\ UNCHANGED <<engine, upstream, initial_kwargs, list_kwargs, max_depth, i, pc,
                   result, calls, pauses, recent, slack>>
    /\ UNCHANGED <<exportVars, drainVars, restVars>>

\* the end of the page: return on an empty token, else store it and loop
Advance ==
    /\ pc = "yield"
    /\ ri > Len(ItemsOf(result))
    /\ IF LastPage(result)
         THEN /\ pc' = "returned"
              /\ UNCHANGED <<list_kwargs, i>>
         ELSE /\ list_kwargs' = NextRequest(list_kwargs, result)
              /\ i' = i + 1
              /\ pc' = "for"
    /\ UNCHANGED <<engine, upstream, initial_kwargs, max_depth, result, ri,
                   yielded, calls, pauses, recent, slack>>
    /\ UNCHANGED <<exportVars, drainVars, restVars>>

\* one second passes while the generator waits for the list call to go out
Elapse ==
    /\ pc = "list"
    /\ slack > 0
    /\ slack' = slack - 1
    /\ recent' = Aged(recent, 1)
    /\ UNCHANGED <<engine, upstream, initial_kwargs, list_kwargs, max_depth, i, pc,
                   result, ri, yielded, calls, pauses>>
    /\ UNCHANGED <<exportVars, drainVars, restVars>>

----------------------------------------------------------------------------
(* export_assets *)

Invocations == {"inv1", "inv2"}

\* values of the OUTPUT_BUCKET setting: a bucket, a bucket with a path, and
\* a value without the gs:// scheme
OutputBuckets ==
    { <<"gs:", "/", "/", "bucket">>,
      <<"gs:", "/", "/", "bucket", "/", "exports">>,
      <<"bucket">> }

\* gcs_prefix = "gs://"
GcsPrefix == <<"gs:", "/", "/">>

\* s.startswith(pre)
StartsWith(s, pre) == Len(s) >= Len(pre) /\ SubSeq(s, 1, Len(pre)) = pre

RECURSIVE Split(_)
\* s.split("/"): the pieces between the "/" tokens, "" for an empty piece
Split(s) ==
    IF s = <<>> THEN <<"">>
    ELSE LET rest == Split(Tail(s))
         IN  IF Head(s) = "/" THEN <<"">> \o rest
                              ELSE <<Head(s) \o rest[1]>> \o Tail(rest)

DefaultsOnlyResource == <<"RESOURCE">>

DEFAULT_CONTENT_TYPES == <<"RESOURCE", "IAM_POLICY">>

\* the first two and the last entry of the list; export_assets only passes it on
DEFAULT_ASSET_TYPES ==
    <<"aiplatform.googleapis.com.*", "anthos.googleapis.com.*", "workflows.googleapis.com.*">>

ContentTypeMapLoose == {"RESOURCE", "IAM_POLICY", "ORG_POLICY", "ACCESS_POLICY", "INVALID"}

\* the keys of content_type_map
ContentTypeMap == {"RESOURCE", "IAM_POLICY", "ORG_POLICY", "ACCESS_POLICY"}

\* the JSON bodies a request may carry; <<>> is the empty body
ExportBodies ==
    { <<>>,
      [asset_types |-> <<"storage.googleapis.com.*">>, content_types |-> <<"RESOURCE">>],
      [content_type |-> <<"RESOURCE">>],
      [asset_types |-> <<"storage.googleapis.com.*">>, content_type |-> <<"IAM_POLICY", "ORG_POLICY">>],
      [content_type |-> <<"RESOURCE", "INVALID">>] }

\* `if data` on a dict
Truthy(d) == DOMAIN d # {}

\* datetime.utcnow().strftime("%Y%m%d%H%M%S"): the time cut to whole seconds
Stamp(t) == ToString(t \div TicksPerSecond)

\* f"asset_export_v2_{timestamp}"
ExportTag(stamp) == "asset_export_v2_" \o stamp

\* f"{OUTPUT_BUCKET}/asset_export_v2_{timestamp}/{content_type}"
UriPrefix(out, stamp, ct) == out \o <<"/", ExportTag(stamp), "/", ct>>

\* OUTPUT_BUCKET[len(gcs_prefix):].split("/")[0]
BucketName(out) == Split(SubSeq(out, Len(GcsPrefix) + 1, Len(out)))[1]

\* f"asset_export_v2_{timestamp}/{content_type}"
MarkerDir(stamp, ct) == <<ExportTag(stamp), "/", ct>>

\* f"{path}/operation_name.txt"
MarkerName(path) == path \o <<"/", "operation_name.txt">>

\* f"{bucket_name}/{path}/operation_name.txt"
FullGcsPath(bucket, path) == <<bucket, "/">> \o path \o <<"/", "operation_name.txt">>

\* blob.upload_from_string: the object is created or replaced
Upload(st, bucket, name, body) ==
    {o \in st : ~(o.bucket = bucket /\ o.name = name)}
        \cup {[bucket |-> bucket, name |-> name, body |-> body]}

Pending == [kind |-> "pending", body |-> <<>>, code |-> 0]
ReturnNone == [kind |-> "return", body |-> <<>>, code |-> 0]
Triggered == [kind |-> "return", body |-> <<"Asset export triggered">>, code |-> 200]
FailedAsTriggered(ct, err) ==
    [kind |-> "return", body |-> <<"Asset export triggered">>, code |-> 200]

\* the return of the except branch
Failed(ct, err) ==
    [kind |-> "return",
     body |-> <<"Failed to export content type ", ct, ". Error: ", err>>,
     code |-> 500]
RaisedValueError(ct) ==
    [kind |-> "raise", body |-> <<"Invalid CONTENT_TYPE: ", ct>>, code |-> 0]

NewInvocation ==
    [pc |-> "waiting", data |-> <<>>, asset_types |-> <<>>, content_types |-> <<>>,
     k |-> 0, timestamp |-> "", uri_prefix |-> <<>>, operation |-> 0,
     bucket_name |-> "", path |-> <<>>, full_gcs_path |-> <<>>,
     response |-> Pending, events |-> <<>>]

Log(p, e) == Append(inv[p].events, e)

AfterExportCallAlways(accepted) == "marker"

\* client.export_assets returns the operation, or raises into the except
AfterExportCall(accepted) == IF accepted THEN "marker" ELSE "done"

\* request.get_json() and the defaults
Receive(p) ==
    /\ inv[p].pc = "waiting"
    /\ \/ \E body \in ExportBodies :
            inv' = [inv EXCEPT ![p] =
                      [@ EXCEPT !.pc = "loop",
                                !.data = body,
                                !.asset_types =
                                    IF Truthy(body) THEN Get(body, "asset_types", DEFAULT_ASSET_TYPES)
                                                    ELSE DEFAULT_ASSET_TYPES,
                                !.content_types =
                                    IF Truthy(body) THEN Get(body, "content_type", DEFAULT_CONTENT_TYPES)
                                                    ELSE DEFAULT_CONTENT_TYPES,
                                !.timestamp = Stamp(clock),
                                !.k = 1]]
       \/ inv' = [inv EXCEPT ![p] =
                    [@ EXCEPT !.pc = "done",
                              !.response = ReturnNone,
                              !.events = Log(p, [ev |-> "fault", at |-> "decode", k |-> 0])]]
    /\ UNCHANGED <<OUTPUT_BUCKET, clock, jobs, storage, tasks>>
    /\ UNCHANGED <<listVars, drainVars, restVars>>

\* `for content_type in content_types`, the check against content_type_map,
\* and the return after the loop
NextContentType(p) ==
    LET me == inv[p]
    IN  /\ me.pc = "loop"
        /\ IF me.k > Len(me.content_types)
             THEN inv' = [inv EXCEPT ![p] = [@ EXCEPT !.pc = "done", !.response = Triggered]]
             ELSE IF me.content_types[me.k] \notin ContentTypeMap
                    THEN inv' = [inv EXCEPT ![p] =
                                   [@ EXCEPT !.pc = "done",
                                             !.response = RaisedValueError(me.content_types[me.k])]]
                    ELSE inv' = [inv EXCEPT ![p] = [@ EXCEPT !.pc = "export"]]
        /\ UNCHANGED <<OUTPUT_BUCKET, clock, jobs, storage, tasks>>
        /\ UNCHANGED <<listVars, drainVars, restVars>>

\* the timestamp, the uri_prefix and client.export_assets(request=request)
SubmitExport(p) ==
    LET me     == inv[p]
        ct     == me.content_types[me.k]
        stamp  == Stamp(clock)
        prefix == UriPrefix(OUTPUT_BUCKET, stamp, ct)
        handle == Len(jobs) + 1
    IN  /\ me.pc = "export"
        /\ \E accepted \in BOOLEAN :
             LET next == AfterExportCall(accepted)
             IN  /\ jobs' = IF accepted
                              THEN Append(jobs, [name |-> handle, uri_prefix |-> prefix,
                                                 content_type |-> ct,
                                                 asset_types |-> me.asset_types])
                              ELSE jobs
                 /\ inv' = [inv EXCEPT ![p] =
                      [@ EXCEPT !.pc = next,
                                !.timestamp = stamp,
                                !.uri_prefix = prefix,
                                !.operation = IF accepted THEN handle ELSE @,
                                !.response = IF next = "done"
                                               THEN Failed(ct, "export_assets error") ELSE @,
                                !.events = IF accepted
                                    THEN Log(p, [ev |-> "submit", k |-> me.k, ct |-> ct,
                                                 uri_prefix |-> prefix, operation |-> handle])
                                    ELSE Log(p, [ev |-> "fault", at |-> "export", k |-> me.k])]]
        /\ UNCHANGED <<OUTPUT_BUCKET, clock, storage, tasks>>
        /\ UNCHANGED <<listVars, drainVars, restVars>>

\* bucket_name, path and full_gcs_path, then blob.upload_from_string
WriteMarker(p) ==
    LET me     == inv[p]
        ct     == me.content_types[me.k]
        bucket == BucketName(OUTPUT_BUCKET)
        path   == MarkerDir(me.timestamp, ct)
    IN  /\ me.pc = "marker"
        /\ IF StartsWith(OUTPUT_BUCKET, GcsPrefix)
             THEN \E stored \in BOOLEAN :
                    IF stored
                      THEN /\ storage' = Upload(storage, bucket, MarkerName(path), me.operation)
                           /\ inv' = [inv EXCEPT ![p] =
                                [@ EXCEPT !.pc = "task",
                                          !.bucket_name = bucket,
                                          !.path = path,
                                          !.full_gcs_path = FullGcsPath(bucket, path),
                                          !.events = Log(p, [ev |-> "marker", k |-> me.k,
                                                             bucket |-> bucket,
                                                             name |-> MarkerName(path),
                                                             body |-> me.operation])]]
                      ELSE /\ storage' = storage
                           /\ inv' = [inv EXCEPT ![p] =
                                [@ EXCEPT !.pc = "done",
                                          !.bucket_name = bucket,
                                          !.path = path,
                                          !.full_gcs_path = FullGcsPath(bucket, path),
                                          !.response = Failed(ct, "upload error"),
                                          !.events = Log(p, [ev |-> "fault", at |-> "upload", k |-> me.k])]]
             ELSE /\ storage' = storage
                  /\ inv' = [inv EXCEPT ![p] =
                       [@ EXCEPT !.pc = "done",
                                 !.response = Failed(ct, "Invalid GCS URI"),
                                 !.events = Log(p, [ev |-> "fault", at |-> "config", k |-> me.k])]]
        /\ UNCHANGED <<OUTPUT_BUCKET, clock, jobs, tasks>>
        /\ UNCHANGED <<listVars, drainVars, restVars>>

TaskErrorSwallowed(p) ==
    [inv[p] EXCEPT !.pc = "loop",
                   !.k = inv[p].k + 1,
                   !.events = Log(p, [ev |-> "fault", at |-> "task", k |-> inv[p].k])]

\* create_task raised: create_cloud_task logs and re-raises, the except of
\* export_assets returns the failure for the content type
TaskError(p) ==
    [inv[p] EXCEPT !.pc = "done",
                   !.response = Failed(inv[p].content_types[inv[p].k], "create_task error"),
                   !.events = Log(p, [ev |-> "fault", at |-> "task", k |-> inv[p].k])]

\* create_cloud_task(full_gcs_path): the task is created, or create_task
\* raises, create_cloud_task re-raises and the except of export_assets returns
EnqueueTask(p) ==
    LET me == inv[p]
        ct == me.content_types[me.k]
    IN  /\ me.pc = "task"
        /\ \E created \in BOOLEAN :
             IF created
               THEN /\ tasks' = tasks \cup {[body |-> me.full_gcs_path, by |-> p, k |-> me.k]}
                    /\ inv' = [inv EXCEPT ![p] =
                         [@ EXCEPT !.pc = "loop",
                                   !.k = me.k + 1,
                                   !.events = Log(p, [ev |-> "task", k |-> me.k,
                                                      body |-> me.full_gcs_path])]]
               ELSE /\ tasks' = tasks
                    /\ inv' = [inv EXCEPT ![p] = TaskError(p)]
        /\ UNCHANGED <<OUTPUT_BUCKET, clock, jobs, storage>>
        /\ UNCHANGED <<listVars, drainVars, restVars>>

\* time passes
Tick ==
    /\ clock < MaxClock
    /\ clock' = clock + 1
    /\ UNCHANGED <<OUTPUT_BUCKET, jobs, storage, tasks, inv>>
    /\ UNCHANGED <<listVars, drainVars, restVars>>

NoExport ==
    /\ OUTPUT_BUCKET = <<"gs:", "/", "/", "bucket">>
    /\ clock = 0
    /\ jobs = <<>>
    /\ storage = {}
    /\ tasks = {}
    /\ inv = [p \in Invocations |-> NewInvocation]

----------------------------------------------------------------------------
(* gcs_to_pubsub and process_gcs_directory *)

\* deliveries of one poll task: the queue delivers at least once
Deliveries == {"d1", "d2"}

\* position of the first and of the last "/" of s, 0 when there is none
FirstSlash(s) ==
    IF \E n \in DOMAIN s : s[n] = "/"
      THEN CHOOSE n \in DOMAIN s : s[n] = "/" /\ \A m \in 1..(n - 1) : s[m] # "/"
      ELSE 0

LastSlash(s) ==
    IF \E n \in DOMAIN s : s[n] = "/"
      THEN CHOOSE n \in DOMAIN s : s[n] = "/" /\ \A m \in (n + 1)..Len(s) : s[m] # "/"
      ELSE 0

\* s.split("/", 1)
SplitOnce(s) ==
    IF FirstSlash(s) = 0 THEN <<s>>
    ELSE <<SubSeq(s, 1, FirstSlash(s) - 1), SubSeq(s, FirstSlash(s) + 1, Len(s))>>

\* s.rsplit("/", 1)
RSplitOnce(s) ==
    IF LastSlash(s) = 0 THEN <<s>>
    ELSE <<SubSeq(s, 1, LastSlash(s) - 1), SubSeq(s, LastSlash(s) + 1, Len(s))>>

RECURSIVE Text(_)
\* the string a token sequence spells
Text(s) == IF s = <<>> THEN "" ELSE Head(s) \o Text(Tail(s))

ResourcePrefixNoSlash(object_path) == RSplitOnce(object_path)[1]

\* object_path.rsplit("/", 1)[0] + "/"
ResourcePrefix(object_path) == RSplitOnce(object_path)[1] \o <<"/">>

\* f"{prefix}operation_name.txt"
LockBlobName(prefix) == prefix \o <<"operation_name.txt">>

\* s.endswith("/")
EndsWithSlash(s) == s # <<>> /\ s[Len(s)] = "/"

\* the export the poll task belongs to: content type RESOURCE, started at time 0
DrainDir == MarkerDir(Stamp(0), "RESOURCE")

\* the payload of the task, and a payload that is no <bucket>/<path>
TaskPayloads == {FullGcsPath("bucket", DrainDir), <<"operation_name.txt">>}

\* the marker of another export in the same bucket
OtherMarker == MarkerName(MarkerDir(Stamp(0), "IAM_POLICY"))

\* objects the export job may have left under its prefix: output of two
\* asset types, an object directly under the prefix, a folder placeholder
DiskBlob == DrainDir \o <<"/", "compute.googleapis.com", "/", "Disk", "/", "0">>
BucketBlob == DrainDir \o <<"/", "storage.googleapis.com", "/", "Bucket", "/", "0">>
NotesBlob == DrainDir \o <<"/", "notes.json">>
FolderBlob == DrainDir \o <<"/", "tmp", "/">>

\* bucket.list_blobs returns names in lexicographic order
ObjectOrder ==
    <<OtherMarker, DiskBlob, NotesBlob, MarkerName(DrainDir), BucketBlob, FolderBlob>>

\* the content of a blob is its lines (content.splitlines()); <<>> is b""
DrainBlobs ==
    { [bucket |-> "bucket", name |-> DiskBlob, lines |-> <<"{name:a}">>],
      [bucket |-> "bucket", name |-> DiskBlob, lines |-> <<>>],
      [bucket |-> "bucket", name |-> DiskBlob, lines |-> <<"{name:a}", "{name:">>],
      [bucket |-> "bucket", name |-> BucketBlob, lines |-> <<"{name:a}", "", "{name:b}">>],
      [bucket |-> "bucket", name |-> NotesBlob, lines |-> <<"{name:b}">>],
      [bucket |-> "bucket", name |-> FolderBlob, lines |-> <<>>] }

ExistsAlways(bucket, name) == TRUE

\* blob.exists()
Exists(bucket, name) == \E o \in storage : o.bucket = bucket /\ o.name = name

ObjectAt(bucket, name) == CHOOSE o \in storage : o.bucket = bucket /\ o.name = name

\* blob.delete()
Remove(st, bucket, name) == {o \in st : ~(o.bucket = bucket /\ o.name = name)}

\* bucket.list_blobs(prefix=prefix)
Listing(bucket, prefix) ==
    LET Listed(name) == Exists(bucket, name) /\ StartsWith(name, prefix)
    IN  SelectSeq(ObjectOrder, Listed)

\* json.loads(line): the object, or JSONDecodeError
JsonLoads(line) ==
    CASE line = "{name:a}" -> [ok |-> TRUE, value |-> [name |-> "a"]]
      [] line = "{name:b}" -> [ok |-> TRUE, value |-> [name |-> "b"]]
      [] OTHER -> [ok |-> FALSE]

\* json.dumps(json_object): ": " after the key
JsonDumps(obj) == "{name: " \o obj.name \o "}"

KeepEveryLine(content) == content

\* `for line in content.splitlines() if line`
NonEmptyLines(content) ==
    LET NonEmpty(line) == line # ""
    IN  SelectSeq(content, NonEmpty)

\* does the list comprehension raise json.JSONDecodeError
Parseable(content) ==
    \A n \in DOMAIN NonEmptyLines(content) : JsonLoads(NonEmptyLines(content)[n]).ok

JsonObjects(content) ==
    [n \in DOMAIN NonEmptyLines(content) |-> JsonLoads(NonEmptyLines(content)[n]).value]

MinFoldersSix == 5 + 1

\* `if len(folders) < 5`
MinFolders == 5

\* the arguments of publisher.publish
Message(json_object, folders) ==
    [data |-> <<"gzip", JsonDumps(json_object)>>,
     observe_content_encoding |-> "gzip",
     observe_original_length |-> ToString(Len(JsonDumps(json_object))),
     observe_gcp_kind |->
         "https://cloud.google.com/asset-inventory/docs/reference/rest/v1/TopLevel/exportAssets",
     observe_gcp_asset_type |-> folders[4],
     observe_gcp_content_type |-> folders[3]]

InvalidPath ==
    [kind |-> "return",
     body |-> <<"Error processing the request. Invalid GCS path format.">>, code |-> 400]
NotYetCompleted ==
    [kind |-> "raise",
     body |-> <<"Asset export operation not yet completed. Task will be retried.">>, code |-> 0]
LockfileAbsent ==
    [kind |-> "return",
     body |-> <<"Lockfile isn't present so assuming all files were previously processed successfully.">>,
     code |-> 200]
Processed ==
    [kind |-> "return",
     body |-> <<"Asset export operation complete. Files processed successfully.">>, code |-> 200]
\* an exception of a client library leaves the function
Raised(err) == [kind |-> "raise", body |-> <<err>>, code |-> 0]

NewDelivery ==
    [pc |-> "queued", gcs_path |-> <<>>, bucket_name |-> "", object_path |-> <<>>,
     prefix |-> <<>>, operation_name |-> 0, blobs |-> <<>>, bi |-> 0,
     json_objects |-> <<>>, li |-> 0, response |-> Pending, events |-> <<>>,
     attempt |-> 1]

\* may a call of delivery d fail: the calls of the last attempt the queue
\* makes succeed
Chances(d) == IF gp[d].attempt < MaxAttempts THEN BOOLEAN ELSE {TRUE}

Note(d, e) == Append(gp[d].events, e)

AbortContinues(d, r, at) ==
    gp' = [gp EXCEPT ![d] = [@ EXCEPT !.pc = "blob", !.bi = @ + 1,
                                      !.events = Note(d, [ev |-> "fault", at |-> at])]]

\* the function ends with response r after a failed call
Abort(d, r, at) ==
    gp' = [gp EXCEPT ![d] = [@ EXCEPT !.pc = "done", !.response = r,
                                      !.events = Note(d, [ev |-> "fault", at |-> at])]]

\* the task is delivered: request.data.decode, the split of the path
Deliver(d) ==
    /\ gp[d].pc = "queued"
    /\ \E t \in tasks :
         LET parts == SplitOnce(t.body)
         IN  IF Len(parts) # 2
               THEN gp' = [gp EXCEPT ![d] =
                             [@ EXCEPT !.pc = "done", !.gcs_path = t.body,
                                       !.response = InvalidPath]]
               ELSE gp' = [gp EXCEPT ![d] =
                             [@ EXCEPT !.pc = "read", !.gcs_path = t.body,
                                       !.bucket_name = Text(parts[1]),
                                       !.object_path = parts[2],
                                       !.prefix = ResourcePrefix(parts[2])]]
    /\ UNCHANGED <<operations, topic, acked>>
    /\ UNCHANGED <<listVars, exportVars, restVars>>

\* process_gcs_directory(bucket_name, prefix) called on its own
DirectCall(d) ==
    /\ gp[d].pc = "queued"
    /\ gp' = [gp EXCEPT ![d] =
                [@ EXCEPT !.pc = "lock", !.bucket_name = "bucket",
                          !.prefix = DrainDir \o <<"/">>,
                          !.events = Note(d, [ev |-> "drain", bucket |-> "bucket",
                                              prefix |-> DrainDir \o <<"/">>])]]
    /\ UNCHANGED <<operations, topic, acked>>
    /\ UNCHANGED <<listVars, exportVars, restVars>>

\* blob.download_as_text().strip() of the marker
ReadMarker(d) ==
    LET me == gp[d]
    IN  /\ me.pc = "read"
        /\ \E ok \in Chances(d) :
             IF ~ok THEN Abort(d, Raised("storage error"), "read")
             ELSE IF ~Exists(me.bucket_name, me.object_path)
                    THEN Abort(d, Raised("NotFound"), "read")
                    ELSE gp' = [gp EXCEPT ![d] =
                           [@ EXCEPT !.pc = "status",
                                     !.operation_name =
                                         ObjectAt(me.bucket_name, me.object_path).body]]
        /\ UNCHANGED <<operations, topic, acked>>
        /\ UNCHANGED <<listVars, exportVars, restVars>>

OperationDoneByDefault(response) == Get(response, "done", TRUE)

\* response.get("done", False)
OperationDone(response) == Get(response, "done", FALSE)

\* operations().get(name=operation_name).execute() and the check of "done"
GetOperation(d) ==
    LET me == gp[d]
    IN  /\ me.pc = "status"
        /\ \E ok \in Chances(d) :
             IF ~ok \/ me.operation_name \notin DOMAIN operations
               THEN Abort(d, Raised("HttpError"), "status")
               ELSE IF OperationDone(operations[me.operation_name])
                      THEN gp' = [gp EXCEPT ![d] =
                             [@ EXCEPT !.pc = "lock",
                                       !.events = Note(d, [ev |-> "drain",
                                                           bucket |-> me.bucket_name,
                                                           prefix |-> me.prefix])]]
                      ELSE gp' = [gp EXCEPT ![d] =
                             [@ EXCEPT !.pc = "done", !.response = NotYetCompleted]]
        /\ UNCHANGED <<operations, topic, acked>>
        /\ UNCHANGED <<listVars, exportVars, restVars>>

\* storage_client.get_bucket and lock_blob.exists()
CheckLock(d) ==
    LET me == gp[d]
    IN  /\ me.pc = "lock"
        /\ \E ok \in Chances(d) :
             IF ~ok THEN Abort(d, Raised("storage error"), "lock")
             ELSE IF ~Exists(me.bucket_name, LockBlobName(me.prefix))
                    THEN gp' = [gp EXCEPT ![d] =
                           [@ EXCEPT !.pc = "done", !.response = LockfileAbsent]]
                    ELSE gp' = [gp EXCEPT ![d] = [@ EXCEPT !.pc = "list"]]
        /\ UNCHANGED <<operations, topic, acked>>
        /\ UNCHANGED <<listVars, exportVars, restVars>>

\* bucket.list_blobs(prefix=prefix)
ListBlobs(d) ==
    LET me == gp[d]
    IN  /\ me.pc = "list"
        /\ \E ok \in Chances(d) :
             IF ~ok THEN Abort(d, Raised("storage error"), "list")
             ELSE gp' = [gp EXCEPT ![d] =
                    [@ EXCEPT !.pc = "blob", !.bi = 1,
                              !.blobs = Listing(me.bucket_name, me.prefix)]]
        /\ UNCHANGED <<operations, topic, acked>>
        /\ UNCHANGED <<listVars, exportVars, restVars>>

SkipAborts(d, why) == Abort(d, Raised("malformed blob"), why)

\* `continue`
Skip(d, why) ==
    gp' = [gp EXCEPT ![d] =
             [@ EXCEPT !.bi = @ + 1,
                       !.events = Note(d, [ev |-> "skip", name |-> gp[d].blobs[gp[d].bi],
                                           why |-> why])]]

\* one turn of `for blob in blobs` up to the publishing: the two name
\* checks, blob.download_as_bytes(), the parse and the check of the path
NextBlob(d) ==
    LET me   == gp[d]
        name == me.blobs[me.bi]
    IN  /\ me.pc = "blob"
        /\ IF me.bi > Len(me.blobs)
             THEN gp' = [gp EXCEPT ![d] = [@ EXCEPT !.pc = "unlock"]]
             ELSE IF name = LockBlobName(me.prefix) THEN Skip(d, "lock")
             ELSE IF EndsWithSlash(name) THEN Skip(d, "folder")
             ELSE \E ok \in Chances(d) :
                    IF ~ok THEN Abort(d, Raised("storage error"), "download")
                    ELSE IF ~Exists(me.bucket_name, name)
                           THEN Abort(d, Raised("NotFound"), "download")
                    ELSE LET content == ObjectAt(me.bucket_name, name).lines
                         IN  IF content = <<>> THEN Skip(d, "empty")
                             ELSE IF ~Parseable(content) THEN Skip(d, "json")
                             ELSE IF Len(Split(name)) < MinFolders THEN Skip(d, "path")
                             ELSE gp' = [gp EXCEPT ![d] =
                                    [@ EXCEPT !.pc = "publish", !.li = 1,
                                              !.json_objects = JsonObjects(content)]]
        /\ UNCHANGED <<operations, topic, acked>>
        /\ UNCHANGED <<listVars, exportVars, restVars>>

\* one turn of `for json_object in json_objects`: publisher.publish
PublishRecord(d) ==
    LET me   == gp[d]
        name == me.blobs[me.bi]
    IN  /\ me.pc = "publish"
        /\ IF me.li > Len(me.json_objects)
             THEN /\ gp' = [gp EXCEPT ![d] = [@ EXCEPT !.pc = "delete"]]
                  /\ topic' = topic
             ELSE \E ok \in Chances(d) :
                    IF ok
                      THEN /\ topic' = Append(topic,
                                  [by |-> d, blob |-> name, line |-> me.li,
                                   message |-> Message(me.json_objects[me.li], Split(name))])
                           /\ gp' = [gp EXCEPT ![d] = [@ EXCEPT !.li = @ + 1]]
                      ELSE /\ topic' = topic
                           /\ Abort(d, Raised("publish error"), "publish")
        /\ UNCHANGED <<operations, acked>>
        /\ UNCHANGED <<listVars, exportVars, restVars>>

\* blob.delete() after the records of the blob were published
DeleteBlob(d) ==
    LET me   == gp[d]
        name == me.blobs[me.bi]
    IN  /\ me.pc = "delete"
        /\ \E ok \in Chances(d) :
             IF ~ok
               THEN /\ Abort(d, Raised("storage error"), "delete")
                    /\ storage' = storage
               ELSE IF ~Exists(me.bucket_name, name)
                      THEN /\ Abort(d, Raised("NotFound"), "delete")
                           /\ storage' = storage
                      ELSE /\ storage' = Remove(storage, me.bucket_name, name)
                           /\ gp' = [gp EXCEPT ![d] =
                                [@ EXCEPT !.pc = "blob", !.bi = @ + 1,
                                          !.events = Note(d, [ev |-> "delete", name |-> name])]]
        /\ UNCHANGED <<OUTPUT_BUCKET, clock, jobs, tasks, inv>>
        /\ UNCHANGED <<operations, topic, acked>>
        /\ UNCHANGED <<listVars, restVars>>

\* lock_blob.delete() after the loop, and the return
DeleteMarker(d) ==
    LET me   == gp[d]
        name == LockBlobName(me.prefix)
    IN  /\ me.pc = "unlock"
        /\ \E ok \in Chances(d) :
             IF ~ok
               THEN /\ Abort(d, Raised("storage error"), "unlock")
                    /\ storage' = storage
               ELSE IF ~Exists(me.bucket_name, name)
                      THEN /\ Abort(d, Raised("NotFound"), "unlock")
                           /\ storage' = storage
                      ELSE /\ storage' = Remove(storage, me.bucket_name, name)
                           /\ gp' = [gp EXCEPT ![d] =
                                [@ EXCEPT !.pc = "done", !.response = Processed,
                                          !.events = Note(d, [ev |-> "unlock", name |-> name])]]
        /\ UNCHANGED <<OUTPUT_BUCKET, clock, jobs, tasks, inv>>
        /\ UNCHANGED <<operations, topic, acked>>
        /\ UNCHANGED <<listVars, restVars>>

\* the asset service finishes the export job of the marker
CompleteJob ==
    /\ ~OperationDone(operations[1])
    /\ operations' = [operations EXCEPT ![1] = SetKey(@, "done", TRUE)]
    /\ UNCHANGED <<topic, acked, gp>>
    /\ UNCHANGED <<listVars, exportVars, restVars>>

\* Pub/Sub acknowledges the oldest message not yet acknowledged: the future
\* that publisher.publish returned for it resolves
Acknowledge ==
    /\ acked < Len(topic)
    /\ acked' = acked + 1
    /\ UNCHANGED <<operations, topic, gp>>
    /\ UNCHANGED <<listVars, exportVars, restVars>>

RetriedNever(response) == FALSE

\* the queue delivers a task again when the function raised, was killed or
\* answered with an error status
Retried(response) == response.kind \in {"raise", "killed"} \/ response.code >= 400

\* the process running delivery d dies and its locals with it
Kill(d) ==
    /\ gp[d].pc \notin {"idle", "queued", "done"}
    /\ gp[d].attempt < MaxAttempts
    /\ gp' = [gp EXCEPT ![d] =
                [NewDelivery EXCEPT !.pc = "done", !.gcs_path = gp[d].gcs_path,
                                    !.attempt = gp[d].attempt,
                                    !.response = [kind |-> "killed", body |-> <<>>,
                                                  code |-> 0]]]
    /\ UNCHANGED <<operations, topic, acked>>
    /\ UNCHANGED <<listVars, exportVars, restVars>>

RedeliverSkipsBlob(d) ==
    /\ gp[d].pc = "done"
    /\ gp[d].gcs_path # <<>>
    /\ Retried(gp[d].response)
    /\ gp' = [gp EXCEPT ![d] =
                [@ EXCEPT !.pc = "blob", !.bi = @ + 1, !.response = Pending,
                          !.attempt = IF @ < MaxAttempts THEN @ + 1 ELSE MaxAttempts]]
    /\ UNCHANGED <<operations, topic, acked>>
    /\ UNCHANGED <<listVars, exportVars, restVars>>

\* the queue delivers the task of a failed attempt again
Redeliver(d) ==
    /\ gp[d].pc = "done"
    /\ gp[d].gcs_path # <<>>
    /\ Retried(gp[d].response)
    /\ gp' = [gp EXCEPT ![d] =
                [NewDelivery EXCEPT !.attempt =
                    IF gp[d].attempt < MaxAttempts THEN gp[d].attempt + 1 ELSE MaxAttempts]]
    /\ UNCHANGED <<operations, topic, acked>>
    /\ UNCHANGED <<listVars, exportVars, restVars>>

\* no poll task is delivered
NoDrain ==
    /\ operations = <<>>
    /\ topic = <<>>
    /\ acked = 0
    /\ gp = [d \in Deliveries |-> [NewDelivery EXCEPT !.pc = "idle"]]

----------------------------------------------------------------------------
(* rest_of_assets, list_projects and publish *)

\* values of the PARENT setting: a project, a folder, an organization
Parents ==
    { <<"projects", "/", "p1">>, <<"folders", "/", "f1">>, <<"organizations", "/", "o1">> }

\* the projects the resource manager may list under a folder or organization
ProjectListings ==
    { <<>>,
      <<[projectId |-> "p1"]>>,
      <<[projectId |-> "p1"], [projectId |-> "p2"]>> }

IsProjectNever(parent) == FALSE

\* parent.startswith("projects")
IsProject(parent) == StartsWith(parent, <<"projects">>)

\* service.projects().get(name=parent).execute()
GetProject(parent) == [projectId |-> Split(parent)[2]]

\* list_func and observe_gcp_kind of each entry
per_project_registry ==
    << [list_func |-> "list_service_accounts",
        observe_gcp_kind |->
            "https://cloud.google.com/iam/docs/reference/rest/v1/projects.serviceAccounts"],
       [list_func |-> "list_instance_to_instance_groups",
        observe_gcp_kind |->
            "https://cloud.google.com/asset-inventory/docs/supported-asset-types#INSTANCE_TO_INSTANCEGROUP"],
       [list_func |-> "list_cloud_scheduler_jobs",
        observe_gcp_kind |->
            "https://cloud.google.com/scheduler/docs/reference/rest/v1/projects.locations.jobs"] >>

ProjectsKind == "https://cloud.google.com/resource-manager/reference/rest/v3/projects"

\* what r.list_func(pid) may return: nothing or one record of the project
KindResults(pid, entry) ==
    { <<>>, <<[projectId |-> pid, listed_by |-> entry.list_func]>> }

\* the arguments of publisher.publish in publish()
RestMessage(r, kind) ==
    [by |-> "rest", data |-> <<"gzip", r>>, observe_gcp_kind |-> kind,
     observe_content_encoding |-> "gzip"]

\* publish(records, kind) as far as record n: one publisher.publish a record
Published(records, kind, n) == topic \o [j \in 1..n |-> RestMessage(records[j], kind)]

RestTriggered == [kind |-> "return", body |-> <<"Rest of export triggered">>, code |-> 200]

NewRest ==
    [pc |-> "start", calls |-> <<>>, listed |-> <<>>, project_records |-> <<>>,
     pi |-> 0, ri |-> 0, response |-> Pending, events |-> <<>>]

\* the next turn of `for r in per_project_registry` inside `for p in project_records`
NextKind(st) ==
    IF st.ri < Len(per_project_registry)
      THEN [st EXCEPT !.ri = @ + 1]
      ELSE [st EXCEPT !.pi = @ + 1, !.ri = 1]

AfterKindErrorRaises(st) == [st EXCEPT !.pc = "done", !.response = Raised("kind error")]

\* `except Exception as e: traceback.print_exception(e)`, then the next turn
AfterKindError(st) == NextKind(st)

\* project_records = list_projects(PARENT)
ListProjects ==
    /\ roa.pc = "start"
    /\ \E ok \in BOOLEAN, listing \in ProjectListings :
         IF IsProject(PARENT)
           THEN roa' = IF ok
                  THEN [roa EXCEPT !.pc = "publish",
                                    !.calls = <<[call |-> "get", name |-> PARENT]>>,
                                    !.project_records =
                                        <<[parent |-> PARENT, project |-> GetProject(PARENT)]>>]
                  ELSE [roa EXCEPT !.pc = "done",
                                    !.calls = <<[call |-> "get", name |-> PARENT]>>,
                                    !.response = Raised("HttpError")]
           ELSE roa' = IF ok
                  THEN [roa EXCEPT !.pc = "publish",
                                    !.calls = <<[call |-> "list", parent |-> PARENT]>>,
                                    !.listed = listing,
                                    !.project_records =
                                        [n \in DOMAIN listing |->
                                            [parent |-> PARENT, project |-> listing[n]]]]
                  ELSE [roa EXCEPT !.pc = "done",
                                    !.calls = <<[call |-> "list", parent |-> PARENT]>>,
                                    !.response = Raised("HttpError")]
    /\ UNCHANGED <<PARENT, topic>>
    /\ UNCHANGED <<operations, acked, gp>>
    /\ UNCHANGED <<listVars, exportVars>>

\* publish(project_records, ...): outside any try, an error leaves the function
PublishProjects ==
    /\ roa.pc = "publish"
    /\ \E n \in 0..Len(roa.project_records) :
         /\ topic' = Published(roa.project_records, ProjectsKind, n)
         /\ roa' = IF n = Len(roa.project_records)
                      THEN [roa EXCEPT !.pc = "collect", !.pi = 1, !.ri = 1]
                      ELSE [roa EXCEPT !.pc = "done", !.response = Raised("publish error")]
    /\ UNCHANGED PARENT
    /\ UNCHANGED <<operations, acked, gp>>
    /\ UNCHANGED <<listVars, exportVars>>

\* one turn of the inner loop: records = r.list_func(pid) and
\* publish(records, r.observe_gcp_kind) in the try; after the loops the return
CollectKind ==
    /\ roa.pc = "collect"
    /\ IF roa.pi > Len(roa.project_records)
         THEN /\ roa' = [roa EXCEPT !.pc = "done", !.response = RestTriggered]
              /\ topic' = topic
         ELSE LET pid   == roa.project_records[roa.pi].project.projectId
                  entry == per_project_registry[roa.ri]
              IN  \E listed \in BOOLEAN, records \in KindResults(pid, entry) :
                    \E n \in 0..Len(records) :
                      IF ~listed
                        THEN /\ topic' = topic
                             /\ roa' = AfterKindError(
                                   [roa EXCEPT !.events = Append(@,
                                       [ev |-> "fault", at |-> "list", pid |-> pid,
                                        list_func |-> entry.list_func])])
                        ELSE /\ topic' = Published(records, entry.observe_gcp_kind, n)
                             /\ roa' = IF n < Len(records)
                                  THEN AfterKindError(
                                         [roa EXCEPT !.events = Append(@,
                                             [ev |-> "fault", at |-> "publish", pid |-> pid,
                                              list_func |-> entry.list_func])])
                                  ELSE NextKind(
                                         [roa EXCEPT !.events = Append(@,
                                             [ev |-> "collected", pid |-> pid,
                                              list_func |-> entry.list_func,
                                              records |-> records])])
    /\ UNCHANGED PARENT
    /\ UNCHANGED <<operations, acked, gp>>
    /\ UNCHANGED <<listVars, exportVars>>

\* rest_of_assets is not running
NoRest ==
    /\ PARENT = <<"projects", "/", "p1">>
    /\ roa = [NewRest EXCEPT !.pc = "idle"]

StartList(e, u, kw, depth, sl) ==
    /\ engine = e
    /\ upstream = u
    /\ initial_kwargs = kw
    /\ list_kwargs = kw
    /\ max_depth = depth
    /\ i = 0
    /\ pc = "for"
    /\ result = [kind |-> "none"]
    /\ ri = 1
    /\ yielded = <<>>
    /\ calls = <<>>
    /\ pauses = <<>>
    /\ recent = <<>>
    /\ slack = sl

Requests == {[name |-> "projects/p"], [name |-> "projects/p", pageToken |-> 1]}

\* both engines on every table source, fresh or resumed, with small max_depth
InitList ==
    /\ \E e \in Engines, u \in Upstreams, kw \in Requests, depth \in 0..MaxDepth :
          StartList(e, u, kw, depth, 0)
    /\ NoExport
    /\ NoDrain
    /\ NoRest

NextList == ForLoop \/ ListCall \/ YieldItem \/ Advance

SpecList == InitList /\ [][NextList]_vars

\* both engines on the same inputs: every table source with max_depth
\* MaxDepth, and a long listing cut short by max_depth or read to its end
InitTwin ==
    /\ \/ \E e \in Engines, u \in Upstreams, kw \in Requests :
              StartList(e, u, kw, MaxDepth, 0)
       \/ \E e \in Engines, depth \in {CallsPerWindow + 1, DefaultMaxDepth} :
              StartList(e, ChainUpstream(ThrottlePages), [name |-> "projects/p"], depth, 0)
    /\ NoExport
    /\ NoDrain
    /\ NoRest

NextTwin == ForLoop \/ ListCall \/ YieldItem \/ Advance

SpecTwin == InitTwin /\ [][NextTwin]_vars

\* the throttled engine on a long listing, with the default max_depth
InitThrottle ==
    /\ StartList("lib", ChainUpstream(ThrottlePages), [name |-> "projects/p"],
                 DefaultMaxDepth, MaxSlow)
    /\ NoExport
    /\ NoDrain
    /\ NoRest

NextThrottle == ForLoop \/ ListCall \/ YieldItem \/ Advance \/ Elapse

SpecThrottle == InitThrottle /\ [][NextThrottle]_vars

\* no listing runs
NoList ==
    /\ engine = "main"
    /\ upstream = ChainUpstream(1)
    /\ initial_kwargs = [name |-> "projects/p"]
    /\ list_kwargs = [name |-> "projects/p"]
    /\ max_depth = 0
    /\ i = 0
    /\ pc = "idle"
    /\ result = [kind |-> "none"]
    /\ ri = 1
    /\ yielded = <<>>
    /\ calls = <<>>
    /\ pauses = <<>>
    /\ recent = <<>>
    /\ slack = 0

\* two invocations of export_assets, concurrent or one after the other
InitExport ==
    /\ NoList
    /\ OUTPUT_BUCKET \in OutputBuckets
    /\ clock = 0
    /\ jobs = <<>>
    /\ storage = {}
    /\ tasks = {}
    /\ inv = [p \in Invocations |-> NewInvocation]
    /\ NoDrain
    /\ NoRest

NextExport ==
    \/ \E p \in Invocations :
          \/ Receive(p)
          \/ NextContentType(p)
          \/ SubmitExport(p)
          \/ WriteMarker(p)
          \/ EnqueueTask(p)
    \/ Tick

SpecExport == InitExport /\ [][NextExport]_vars

\* export_assets has returned for RESOURCE and IAM_POLICY: the jobs run, the
\* markers are written (or the RESOURCE marker was already deleted by a
\* finished drain), the export job has written up to MaxBlobs objects under
\* its prefix, and the poll task of RESOURCE is delivered twice
InitDrain ==
    /\ NoList
    /\ OUTPUT_BUCKET = <<"gs:", "/", "/", "bucket">>
    /\ clock = 0
    /\ jobs = [n \in 1..2 |->
                 [name |-> n,
                  uri_prefix |-> UriPrefix(OUTPUT_BUCKET, Stamp(0), DEFAULT_CONTENT_TYPES[n]),
                  content_type |-> DEFAULT_CONTENT_TYPES[n],
                  asset_types |-> DEFAULT_ASSET_TYPES]]
    /\ \E locked \in BOOLEAN, output \in SUBSET DrainBlobs :
         /\ Cardinality(output) <= MaxBlobs
         /\ \A a, b \in output : a.name = b.name => a = b
         /\ storage = {[bucket |-> "bucket", name |-> OtherMarker, body |-> 2]}
                \cup (IF locked THEN {[bucket |-> "bucket", name |-> MarkerName(DrainDir),
                                       body |-> 1]}
                                ELSE {})
                \cup output
    /\ \E payload \in TaskPayloads : tasks = {[body |-> payload, by |-> "inv1", k |-> 1]}
    /\ inv = [p \in Invocations |-> NewInvocation]
    /\ operations \in {(1 :> [name |-> 1]) @@ (2 :> [name |-> 2]),
                       (1 :> [name |-> 1, done |-> FALSE]) @@ (2 :> [name |-> 2])}
    /\ topic = <<>>
    /\ acked = 0
    /\ gp = [d \in Deliveries |-> NewDelivery]
    /\ NoRest

NextDrain ==
    \/ \E d \in Deliveries :
          \/ Deliver(d)
          \/ DirectCall(d)
          \/ ReadMarker(d)
          \/ GetOperation(d)
          \/ CheckLock(d)
          \/ ListBlobs(d)
          \/ NextBlob(d)
          \/ PublishRecord(d)
          \/ DeleteBlob(d)
          \/ DeleteMarker(d)
    \/ CompleteJob

SpecDrain == InitDrain /\ [][NextDrain]_vars

\* the deliveries of the poll task together with the acknowledgments
NextAck == NextDrain \/ Acknowledge

SpecAck == InitDrain /\ [][NextAck]_vars

\* the deliveries of the poll task with crashes and redelivery: the task
\* carries the path of the marker
RetryBlobs ==
    { o \in DrainBlobs : o.lines # <<>> }

InitRetry ==
    /\ InitDrain
    /\ \A t \in tasks : t.body = FullGcsPath("bucket", DrainDir)
    /\ Exists("bucket", MarkerName(DrainDir))
    /\ \A o \in storage : "lines" \in DOMAIN o => o \in RetryBlobs

\* the queue hands the task to one invocation at a time
Redelivered == {"d1"}

NextRetry ==
    \/ \E d \in Redelivered :
          \/ Deliver(d)
          \/ ReadMarker(d)
          \/ GetOperation(d)
          \/ CheckLock(d)
          \/ ListBlobs(d)
          \/ NextBlob(d)
          \/ PublishRecord(d)
          \/ DeleteBlob(d)
          \/ DeleteMarker(d)
          \/ Kill(d)
          \/ Redeliver(d)
    \/ CompleteJob

SpecRetry == InitRetry /\ [][NextRetry]_vars

\* the steps of delivery d and of the queue on its behalf, not its death
Progress(d) ==
    \/ Deliver(d)
    \/ ReadMarker(d)
    \/ GetOperation(d)
    \/ CheckLock(d)
    \/ ListBlobs(d)
    \/ NextBlob(d)
    \/ PublishRecord(d)
    \/ DeleteBlob(d)
    \/ DeleteMarker(d)
    \/ Redeliver(d)

\* the export job completes, a running invocation takes its next step and
\* the queue delivers a failed task again
SpecLive ==
    /\ InitRetry
    /\ [][NextRetry]_vars
    /\ WF_vars(CompleteJob)
    /\ \A d \in Redelivered : WF_vars(Progress(d))

\* one invocation of rest_of_assets
InitRest ==
    /\ NoList
    /\ NoExport
    /\ NoDrain
    /\ PARENT \in Parents
    /\ roa = NewRest

NextRest == ListProjects \/ PublishProjects \/ CollectKind

SpecRest == InitRest /\ [][NextRest]_vars

----------------------------------------------------------------------------
(* What the listing is, read off the source table alone *)

PageRecords(page) == IF "accounts" \in DOMAIN page THEN page.accounts ELSE <<>>

TerminalPage(page) ==
    \/ "nextPageToken" \notin DOMAIN page
    \/ page.nextPageToken = EmptyToken

RECURSIVE PagesConcat(_, _, _)
\* the items of the first n pages (fewer when the listing ends) from cursor c
PagesConcat(u, c, n) ==
    IF n = 0 THEN <<>>
    ELSE PageRecords(u[c]) \o
         (IF TerminalPage(u[c]) THEN <<>> ELSE PagesConcat(u, u[c].nextPageToken, n - 1))

FirstCursor == IF "pageToken" \in DOMAIN initial_kwargs THEN initial_kwargs.pageToken ELSE EmptyToken

NoDuplicates(s) == \A a, b \in DOMAIN s : a # b => s[a] # s[b]

AlwaysMore(u) == \A c \in DOMAIN u : ~TerminalPage(u[c])

Stopped == pc \in {"returned", "raised"}

\* C1: the items yielded are the concatenation, in page order, of the items of
\* the pages fetched so far, and when safe_list ends normally they are the
\* items of every page of the listing, each exactly once.
C1Concatenation ==
    /\ pc # "yield" => yielded = PagesConcat(upstream, FirstCursor, Len(calls))
    /\ pc = "yield" =>
          yielded = PagesConcat(upstream, FirstCursor, Len(calls) - 1)
                      \o SubSeq(PageRecords(result), 1, ri - 1)
    /\ pc = "returned" =>
          /\ yielded = PagesConcat(upstream, FirstCursor, Cardinality(DOMAIN upstream))
          /\ NoDuplicates(yielded)

C1Witness ==
    /\ pc = "returned"
    /\ Len(calls) = 3
    /\ Len(yielded) = 3 * MaxItems

\* C2: safe_list never issues more than max_depth list calls, never returns
\* while the last page carried a non-empty token, and on a source that always
\* returns a non-empty token it can only stop by raising, after exactly
\* max_depth calls.
C2Exhaustion ==
    /\ Len(calls) <= max_depth
    /\ pc = "returned" => TerminalPage(result)
    /\ pc = "raised" => Len(calls) = max_depth
    /\ AlwaysMore(upstream) => pc # "returned"
    /\ ~Stopped => ENABLED NextList

C2Witness ==
    /\ AlwaysMore(upstream)
    /\ pc = "raised"
    /\ max_depth = MaxDepth
    /\ Len(calls) = MaxDepth

\* C3: when the first page has no nextPageToken or an empty one, exactly one
\* list call is issued, only that page's items are yielded and the generator
\* returns.
C3SinglePage ==
    LET first == upstream[FirstCursor]
    IN  TerminalPage(first) =>
          /\ Len(calls) <= 1
          /\ pc # "raised" \/ max_depth = 0
          /\ Len(calls) = 1 =>
                /\ pc \in {"yield", "returned"}
                /\ result = first
                /\ yielded = SubSeq(PageRecords(first), 1, ri - 1)
                /\ pc = "returned" => yielded = PageRecords(first)

C3Witness ==
    /\ "nextPageToken" \in DOMAIN upstream[FirstCursor]
    /\ upstream[FirstCursor].nextPageToken = EmptyToken
    /\ pc = "returned"
    /\ Len(calls) = 1
    /\ max_depth > 1
    /\ Len(yielded) = MaxItems

\* C4: lib.safe_list sleeps before call k exactly when k > 1 and k - 1 is a
\* multiple of 95, each sleep lasting at least the window; a fetch of 200
\* pages sleeps exactly twice, before call 96 and before call 191.
C4PausePoints ==
    /\ \A n \in 0..Len(calls) :
          (\E k \in DOMAIN pauses : pauses[k].after = n)
            <=> (n # 0 /\ n % 95 = 0 /\ (n < Len(calls) \/ pc = "list"))
    /\ \A k \in DOMAIN pauses :
          /\ pauses[k].after = 95 * k
          /\ pauses[k].secs >= WindowDuration
    /\ (pc = "returned" /\ Len(calls) \in 191..285) =>
          /\ Len(pauses) = 2
          /\ pauses[1].after + 1 = 96
          /\ pauses[2].after + 1 = 191

C4Witness ==
    /\ pc = "returned"
    /\ Len(calls) = ThrottlePages
    /\ Len(pauses) = 2

\* C5: at every moment of a throttled fetch, fewer than 96 list calls were
\* issued within the last 60 seconds.
C5SlidingWindow == Len(recent) <= CallsPerWindow

C5Witness ==
    /\ Len(pauses) = 1
    /\ Len(recent) = CallsPerWindow
    /\ slack = 0

----------------------------------------------------------------------------
(* export_assets: what an invocation did, read off its event log *)

EventsOf(p, kind) ==
    LET IsKind(e) == e.ev = kind
    IN  SelectSeq(inv[p].events, IsKind)

NoFault(p) == EventsOf(p, "fault") = <<>>

Stamps == {Stamp(t) : t \in 0..MaxClock}

\* <bucket>/asset_export_v2_<timestamp>/<content type>/operation_name.txt
PollPath(bucket, stamp, ct) ==
    <<bucket, "/", "asset_export_v2_" \o stamp, "/", ct, "/", "operation_name.txt">>

\* C6: a request without body or without "content_type" uses RESOURCE and
\* IAM_POLICY; when nothing fails, the invocation submits two export jobs,
\* writes two markers, creates one task per content type with a path
\* <bucket>/asset_export_v2_<timestamp>/<content type>/operation_name.txt,
\* and returns ("Asset export triggered", 200).
C6Defaults ==
    \A p \in Invocations :
        LET me == inv[p]
            decoded == me.pc # "waiting" /\ ~(\E n \in DOMAIN me.events :
                                                      me.events[n].ev = "fault" /\ me.events[n].at = "decode")
            cts == <<"RESOURCE", "IAM_POLICY">>
        IN  (decoded /\ "content_type" \notin DOMAIN me.data) =>
              /\ me.content_types = cts
              /\ (me.pc = "done" /\ NoFault(p)) => me.response = Triggered
              /\ me.response = Triggered =>
                    /\ me.pc = "done"
                    /\ Len(EventsOf(p, "submit")) = 2
                    /\ Len(EventsOf(p, "marker")) = 2
                    /\ Len(EventsOf(p, "task")) = 2
                    /\ \A n \in 1..2 :
                          /\ EventsOf(p, "submit")[n].ct = cts[n]
                          /\ \E stamp \in Stamps :
                                EventsOf(p, "task")[n].body =
                                    PollPath(OUTPUT_BUCKET[4], stamp, cts[n])

C6Witness ==
    \E p \in Invocations :
        /\ inv[p].data = <<>>
        /\ inv[p].pc = "done"
        /\ inv[p].response = Triggered
        /\ Len(EventsOf(p, "task")) = 2

\* C7: in an invocation, a marker is written only right after the export job
\* of that content type was accepted and holds the handle that job returned;
\* a task is created only right after the marker of that content type was
\* written and names that object; every task in the queue names a marker
\* that was written and every marker holds the handle of an accepted job.
C7Order ==
    /\ \A p \in Invocations :
          LET ev == inv[p].events
          IN  \A n \in DOMAIN ev :
                /\ ev[n].ev = "submit" =>
                      \E j \in DOMAIN jobs :
                          /\ jobs[j].name = ev[n].operation
                          /\ jobs[j].uri_prefix = ev[n].uri_prefix
                /\ ev[n].ev = "marker" =>
                      /\ n > 1
                      /\ ev[n - 1].ev = "submit"
                      /\ ev[n - 1].k = ev[n].k
                      /\ ev[n - 1].operation = ev[n].body
                /\ ev[n].ev = "task" =>
                      /\ n > 1
                      /\ ev[n - 1].ev = "marker"
                      /\ ev[n - 1].k = ev[n].k
                      /\ ev[n].body = <<ev[n - 1].bucket, "/">> \o ev[n - 1].name
    /\ \A t \in tasks : \E o \in storage : t.body = <<o.bucket, "/">> \o o.name
    /\ \A o \in storage : \E j \in DOMAIN jobs : jobs[j].name = o.body

C7Witness ==
    \E p \in Invocations :
        /\ "content_type" \in DOMAIN inv[p].data
        /\ Len(inv[p].events) = 6
        /\ inv[p].events[6].ev = "task"
        /\ Cardinality(tasks) > 2

\* C8: every marker is the object <uri_prefix>/operation_name.txt of the
\* uri_prefix the export job was submitted with, its body is the handle the
\* job returned, and the task's path names that object.
C8MarkerAtPrefix ==
    \A p \in Invocations :
        LET ev == inv[p].events
        IN  StartsWith(OUTPUT_BUCKET, GcsPrefix) => \A n \in DOMAIN ev :
              /\ (ev[n].ev = "marker" /\ n > 1 /\ ev[n - 1].ev = "submit") =>
                    /\ GcsPrefix \o <<ev[n].bucket, "/">> \o ev[n].name
                          = ev[n - 1].uri_prefix \o <<"/", "operation_name.txt">>
                    /\ ev[n].body = ev[n - 1].operation
              /\ (ev[n].ev = "task" /\ n > 1 /\ ev[n - 1].ev = "marker") =>
                    ev[n].body = <<ev[n - 1].bucket, "/">> \o ev[n - 1].name

\* C9: any two export jobs submitted, by one invocation or by two, have
\* different URI prefixes.
C9UniquePrefix ==
    StartsWith(OUTPUT_BUCKET, GcsPrefix) =>
        \A a, b \in DOMAIN jobs : a # b => jobs[a].uri_prefix # jobs[b].uri_prefix

\* C10: when the submission of one content type fails, every other valid
\* content type of the request is still submitted, gets its marker and gets
\* its task.
C10Independent ==
    \A p \in Invocations :
        LET me == inv[p]
            Has(kind, j) == \E n \in DOMAIN me.events : me.events[n].ev = kind /\ me.events[n].k = j
        IN  (/\ StartsWith(OUTPUT_BUCKET, GcsPrefix)
             /\ me.pc = "done"
             /\ \A n \in DOMAIN me.events :
                   me.events[n].ev = "fault" => me.events[n].at = "export") =>
              \A j \in DOMAIN me.content_types :
                  (me.content_types[j] \in ContentTypeMap /\ ~Has("fault", j)) =>
                      Has("submit", j) /\ Has("marker", j) /\ Has("task", j)

\* C11: when the asset service rejects the submission for content type T,
\* the invocation ends there with the return value
\* ("Failed to export content type T. Error: <error>", 500), and it has
\* written no marker and created no task for T.
C11SubmissionRejected ==
    \A p \in Invocations :
        LET me == inv[p]
        IN  \A n \in DOMAIN me.events :
              (me.events[n].ev = "fault" /\ me.events[n].at = "export") =>
                  LET j == me.events[n].k
                  IN  /\ n = Len(me.events)
                      /\ me.pc = "done"
                      /\ me.response = [kind |-> "return",
                                        body |-> <<"Failed to export content type ",
                                                   me.content_types[j],
                                                   ". Error: ", "export_assets error">>,
                                        code |-> 500]
                      /\ \A m \in DOMAIN me.events :
                            me.events[m].k = j => me.events[m].ev \notin {"submit", "marker", "task"}
                      /\ \A t \in tasks : ~(t.by = p /\ t.k = j)

C11Witness ==
    \E p \in Invocations :
        /\ Len(inv[p].events) = 4
        /\ inv[p].events[4].ev = "fault"
        /\ inv[p].events[4].at = "export"
        /\ inv[p].events[4].k = 2
        /\ inv[p].response.code = 500

\* C12: an invocation raises ValueError exactly when its loop reaches a
\* content type outside RESOURCE, IAM_POLICY, ORG_POLICY, ACCESS_POLICY; it
\* has then submitted no job, written no marker and created no task for
\* that value, and no such step is ever taken for such a value.
C12InvalidContentType ==
    \A p \in Invocations :
        LET me == inv[p]
            Valid == {"RESOURCE", "IAM_POLICY", "ORG_POLICY", "ACCESS_POLICY"}
        IN  /\ me.pc \in {"export", "marker", "task"} => me.content_types[me.k] \in Valid
            /\ \A n \in DOMAIN me.events :
                  me.events[n].ev \in {"submit", "marker", "task"} =>
                      me.content_types[me.events[n].k] \in Valid
            /\ me.response.kind = "raise" =>
                  /\ me.pc = "done"
                  /\ me.k \in DOMAIN me.content_types
                  /\ me.content_types[me.k] \notin Valid
                  /\ me.response.body = <<"Invalid CONTENT_TYPE: ", me.content_types[me.k]>>
                  /\ \A n \in DOMAIN me.events : me.events[n].k < me.k
                  /\ \A t \in tasks : t.by = p => t.k < me.k
            /\ (/\ me.pc = "done"
                /\ me.k \in DOMAIN me.content_types
                /\ me.content_types[me.k] \notin Valid) => me.response.kind = "raise"

C12Witness ==
    \E p \in Invocations :
        /\ inv[p].response.kind = "raise"
        /\ inv[p].k = 2
        /\ Len(EventsOf(p, "task")) = 1

----------------------------------------------------------------------------
(* gcs_to_pubsub and process_gcs_directory: what a delivery did *)

NotesOf(d, kind) ==
    LET IsKind(e) == e.ev = kind
    IN  SelectSeq(gp[d].events, IsKind)

PublishedBy(d) ==
    LET ByD(m) == m.by = d
    IN  SelectSeq(topic, ByD)

\* the delivery entered no drain, listed nothing, published nothing and
\* deleted nothing
NothingDrained(d) ==
    /\ gp[d].events = <<>>
    /\ gp[d].blobs = <<>>
    /\ PublishedBy(d) = <<>>

\* the step in which delivery d gets the status of the job without a
\* failure of the call, and the job is not reported done
FindsJobUnfinished(d) ==
    /\ gp[d].pc = "status"
    /\ gp'[d].pc # "status"
    /\ NotesOf(d, "fault")' = NotesOf(d, "fault")
    /\ LET response == operations[gp[d].operation_name]
       IN  "done" \notin DOMAIN response \/ response.done = FALSE

\* C13: a delivery that finds the export job not yet complete ends by
\* raising "Asset export operation not yet completed. Task will be retried.";
\* that step changes neither the bucket nor the topic, and a delivery that
\* ended this way has drained nothing: no drain entered, nothing published,
\* no blob and no marker deleted.
C13NotYetComplete ==
    [][\A d \in Deliveries :
          /\ FindsJobUnfinished(d) =>
                /\ gp'[d].pc = "done"
                /\ gp'[d].response.kind = "raise"
                /\ gp'[d].response.body =
                      <<"Asset export operation not yet completed. Task will be retried.">>
                /\ storage' = storage
                /\ topic' = topic
          /\ (gp'[d].response.kind = "raise" /\ gp'[d].response.body =
                      <<"Asset export operation not yet completed. Task will be retried.">>) =>
                NothingDrained(d)']_vars

\* one delivery was told to retry, the job completed, the next one drained
C13Witness ==
    /\ gp["d1"].response = NotYetCompleted
    /\ NothingDrained("d1")
    /\ gp["d2"].response = Processed
    /\ gp["d2"].gcs_path # <<>>

\* the step in which delivery d gets the status of the job without a
\* failure of the call, and the job is reported done
FindsJobDone(d) ==
    /\ gp[d].pc = "status"
    /\ gp'[d].pc # "status"
    /\ NotesOf(d, "fault")' = NotesOf(d, "fault")
    /\ LET response == operations[gp[d].operation_name]
       IN  "done" \in DOMAIN response /\ response.done = TRUE

\* a delivery of the task that has entered the drain entered it once, with
\* the bucket and the directory of the path it received, after the job named
\* in the marker was reported done; it lists and handles only objects under
\* that prefix
DrainedAsAsked(d) ==
    LET me     == gp[d]
        drains == NotesOf(d, "drain")
    IN  me.gcs_path # <<>> =>
          /\ Len(drains) <= 1
          /\ me.pc \in {"lock", "list", "blob", "publish", "delete", "unlock"} => Len(drains) = 1
          /\ Len(drains) = 1 =>
                /\ me.events[1] = drains[1]
                /\ me.gcs_path = <<drains[1].bucket, "/">> \o drains[1].prefix
                                      \o <<"operation_name.txt">>
                /\ drains[1].prefix[Len(drains[1].prefix)] = "/"
                /\ me.bucket_name = drains[1].bucket
                /\ me.prefix = drains[1].prefix
                /\ operations[me.operation_name].done = TRUE
                /\ \A n \in DOMAIN me.blobs : StartsWith(me.blobs[n], drains[1].prefix)

\* C14: a delivery that received <bucket>/<dir>/operation_name.txt and was
\* told that the job named in that marker is done enters the drain in that
\* very step, with bucket <bucket> and prefix <dir>/; it enters the drain at
\* most once and never without having seen the job done.
C14DrainsOnceWhenDone ==
    [][\A d \in Deliveries :
          /\ FindsJobDone(d) =>
                /\ gp'[d].pc = "lock"
                /\ NotesOf(d, "drain")' =
                      <<[ev |-> "drain", bucket |-> "bucket",
                         prefix |-> <<"asset_export_v2_0", "/", "RESOURCE", "/">>]>>
          /\ DrainedAsAsked(d)']_vars

C14Witness ==
    \E d \in Deliveries :
        /\ gp[d].gcs_path = <<"bucket", "/", "asset_export_v2_0", "/", "RESOURCE", "/",
                               "operation_name.txt">>
        /\ Len(NotesOf(d, "drain")) = 1
        /\ gp[d].response = Processed
        /\ Len(PublishedBy(d)) = 2

\* C15: once a delivery has deleted the marker, no object other than the
\* marker that holds lines is left under the prefix without having been
\* published.
C15MarkerDeletedLast ==
    \A d \in Deliveries :
        NotesOf(d, "unlock") # <<>> =>
            \A o \in storage :
                (/\ o.bucket = gp[d].bucket_name
                 /\ StartsWith(o.name, gp[d].prefix)
                 /\ o.name # LockBlobName(gp[d].prefix)
                 /\ NonEmptyLines(o.lines) # <<>>) =>
                    \E n \in DOMAIN topic : topic[n].blob = o.name

\* the step in which delivery d, in process_gcs_directory, looks for the
\* marker without a failure of the call, and the marker is not there
FindsMarkerDeleted(d) ==
    /\ gp[d].pc = "lock"
    /\ gp'[d].pc # "lock"
    /\ NotesOf(d, "fault")' = NotesOf(d, "fault")
    /\ ~\E o \in storage :
           /\ o.bucket = gp[d].bucket_name
           /\ o.name = gp[d].prefix \o <<"operation_name.txt">>

\* the delivery published nothing, listed nothing, skipped and deleted nothing
NoOp(d) ==
    /\ PublishedBy(d) = <<>>
    /\ gp[d].blobs = <<>>
    /\ \A n \in DOMAIN gp[d].events : gp[d].events[n].ev = "drain"

\* C16: every call of process_gcs_directory that finds the marker of its
\* prefix deleted returns ("Lockfile isn't present ...", 200) in that step
\* and leaves bucket and topic as they are; a call that returned this way
\* has published nothing and deleted nothing.
C16DrainAfterMarkerDeleted ==
    [][\A d \in Deliveries :
          /\ FindsMarkerDeleted(d) =>
                /\ gp'[d].pc = "done"
                /\ gp'[d].response.kind = "return"
                /\ gp'[d].response.code = 200
                /\ gp'[d].response.body =
                      <<"Lockfile isn't present so assuming all files were previously processed successfully.">>
                /\ storage' = storage
                /\ topic' = topic
          /\ gp'[d].response.body =
                <<"Lockfile isn't present so assuming all files were previously processed successfully.">>
                => NoOp(d)']_vars

\* two calls on a prefix without marker that still holds an object with records
C16Witness ==
    /\ \A d \in Deliveries : gp[d].response = LockfileAbsent /\ gp[d].gcs_path = <<>>
    /\ topic = <<>>
    /\ \E o \in storage : o.name = BucketBlob

\* the JSON lines of the objects and the text json.dumps gives for each
GoodLines == {"{name:a}", "{name:b}"}

Redumped(line) == IF line = "{name:a}" THEN "{name: a}" ELSE "{name: b}"

\* at least 5 path segments, not a folder, content present and every
\* non-empty line a JSON document
WellFormed(o) ==
    /\ Len(Split(o.name)) >= 5
    /\ o.name[Len(o.name)] # "/"
    /\ o.lines # <<>>
    /\ \A n \in DOMAIN o.lines : o.lines[n] = "" \/ o.lines[n] \in GoodLines

\* the messages delivery d published for the object called name
PublishedFor(d, name) ==
    LET Mine(m) == m.by = d /\ m.blob = name
    IN  SelectSeq(topic, Mine)

Handled(d, name) ==
    \E n \in DOMAIN gp[d].events :
        gp[d].events[n].ev \in {"skip", "delete"} /\ gp[d].events[n].name = name

\* C17: a drain publishes only for well-formed blobs, one message per
\* non-empty line, in order, carrying the line as json.dumps writes it,
\* tagged with segment 2 as content type, segment 3 as asset type and the
\* exportAssets kind; it skips no well-formed blob; it deletes a blob only
\* after publishing its records, deletes the marker only after every listed
\* blob was handled, and returns ("Asset export operation complete. Files
\* processed successfully.", 200) exactly then; with the marker and one
\* one-line blob under the prefix it publishes exactly once.
C17DrainPublishes ==
    \A d \in Deliveries :
        LET me == gp[d]
        IN  /\ \A n \in DOMAIN topic :
                  LET m == topic[n].message
                      folders == Split(topic[n].blob)
                  IN  /\ Len(folders) >= 5
                      /\ m.observe_gcp_content_type = folders[3]
                      /\ m.observe_gcp_asset_type = folders[4]
                      /\ m.observe_gcp_kind =
                            "https://cloud.google.com/asset-inventory/docs/reference/rest/v1/TopLevel/exportAssets"
                      /\ m.observe_content_encoding = "gzip"
            /\ \A o \in storage :
                  (o.bucket = me.bucket_name /\ me.pc = "delete" /\ o.name = me.blobs[me.bi]) =>
                      LET lines == NonEmptyLines(o.lines)
                          sent  == PublishedFor(d, o.name)
                      IN  /\ WellFormed(o)
                          /\ Len(sent) = Len(lines)
                          /\ \A n \in DOMAIN lines :
                                /\ sent[n].line = n
                                /\ sent[n].message.data = <<"gzip", Redumped(lines[n])>>
            /\ \A n \in DOMAIN me.events :
                  /\ me.events[n].ev = "delete" => PublishedFor(d, me.events[n].name) # <<>>
                  /\ (me.events[n].ev = "skip" /\ me.events[n].why \in {"empty", "json", "path"}) =>
                        \A o \in storage :
                            (o.bucket = me.bucket_name /\ o.name = me.events[n].name) => ~WellFormed(o)
                  /\ me.events[n].ev = "unlock" =>
                        /\ n = Len(me.events)
                        /\ me.bi = Len(me.blobs) + 1
                        /\ \A b \in DOMAIN me.blobs : Handled(d, me.blobs[b])
            /\ (me.response.kind = "return" /\ me.response.code = 200 /\ me.response.body =
                    <<"Asset export operation complete. Files processed successfully.">>)
                  <=> NotesOf(d, "unlock") # <<>>
            /\ (/\ NotesOf(d, "unlock") # <<>>
                /\ Len(me.blobs) = 2
                /\ \E n \in DOMAIN me.events :
                      me.events[n].ev = "delete" /\ me.events[n].name = DiskBlob) =>
                  Len(PublishedBy(d)) = 1

\* the marker and one blob with one JSON line: one publish, blob and marker deleted
C17Witness ==
    \E d \in Deliveries :
        /\ gp[d].blobs = <<DiskBlob, MarkerName(DrainDir)>>
        /\ gp[d].response = Processed
        /\ Len(PublishedBy(d)) = 1
        /\ Len(topic) = 1
        /\ topic[1].message.observe_gcp_asset_type = "Disk"
        /\ ~\E o \in storage : o.name \in {DiskBlob, MarkerName(DrainDir)}

Skipped(d, name) ==
    \E n \in DOMAIN gp[d].events :
        gp[d].events[n].ev = "skip" /\ gp[d].events[n].name = name

\* the calls of gcs_to_pubsub and process_gcs_directory that can fail
DrainCalls == {"read", "status", "lock", "list", "download", "publish", "delete", "unlock"}

FailsInDrain(d) ==
    /\ Len(NotesOf(d, "fault")') = Len(NotesOf(d, "fault")) + 1
    /\ gp'[d].events[Len(gp'[d].events)].at \in {"download", "publish", "delete"}

\* the names of the objects now under the prefix of delivery d
Remaining(d) ==
    {o.name : o \in {x \in storage : x.bucket = gp[d].bucket_name
                                       /\ StartsWith(x.name, gp[d].prefix)}}

EndedUndisturbed(d) ==
    /\ gp[d].gcs_path # <<>>
    /\ gp[d].pc = "done"
    /\ gp[d].response.body \notin
          { <<"storage error">>, <<"publish error">>, <<"HttpError">>,
            <<"Asset export operation not yet completed. Task will be retried.">> }

NoErrorInEither == \A d \in Deliveries : gp[d].response.kind = "return"

PublishedOnce ==
    \A m, n \in DOMAIN topic : topic[m].blob = topic[n].blob => topic[m].by = topic[n].by

\* C20: when the task of a finished export is delivered twice, one after
\* the other or at the same time, and no call fails for a reason of its
\* own, both deliveries return without error and no blob has records
\* published by both.
C20Idempotent ==
    (/\ \A d \in Deliveries : EndedUndisturbed(d)
     /\ \E d \in Deliveries : NotesOf(d, "drain") # <<>>) =>
        NoErrorInEither /\ PublishedOnce

\* every message delivery d handed to publisher.publish is acknowledged
AllAcked(d) == \A n \in DOMAIN topic : topic[n].by = d => n <= acked

\* C21: a delivery that has deleted a blob, deleted the marker or returned
\* success has the acknowledgment of every message it published.
C21AckBeforeSuccess ==
    \A d \in Deliveries :
        (\/ NotesOf(d, "delete") # <<>>
         \/ NotesOf(d, "unlock") # <<>>
         \/ gp[d].response.kind = "return" /\ gp[d].response.code = 200) => AllAcked(d)

----------------------------------------------------------------------------
(* rest_of_assets: what the invocation did *)

\* the three resource kinds, in the order of the registry
KindFuncs ==
    <<"list_service_accounts", "list_instance_to_instance_groups", "list_cloud_scheduler_jobs">>

\* the turns of the two loops taken so far
TurnsTaken ==
    IF roa.pi = 0 THEN 0
    ELSE IF roa.pi > Len(roa.project_records) THEN 3 * Len(roa.project_records)
    ELSE 3 * (roa.pi - 1) + (roa.ri - 1)

\* C22: once the per-project loops have begun, rest_of_assets ends only by
\* returning ("Rest of export triggered", 200): a resource kind whose listing
\* or publishing raised is passed over, every kind of every project gets
\* its turn in registry order whatever happened to the kinds before it, and
\* the records of every kind that did not fail are published under its kind.
C22KindErrorsSkipped ==
    /\ (roa.pc = "done" /\ roa.pi >= 1) =>
          /\ roa.response.kind = "return"
          /\ roa.response.body = <<"Rest of export triggered">>
          /\ roa.response.code = 200
          /\ Len(roa.events) = 3 * Len(roa.project_records)
    /\ Len(roa.events) = TurnsTaken
    /\ \A n \in DOMAIN roa.events :
          LET e == roa.events[n]
          IN  /\ e.pid = roa.project_records[((n - 1) \div 3) + 1].project.projectId
              /\ e.list_func = KindFuncs[((n - 1) % 3) + 1]
              /\ e.ev = "collected" =>
                    \A j \in DOMAIN e.records :
                        \E m \in DOMAIN topic :
                            /\ topic[m].data = <<"gzip", e.records[j]>>
                            /\ \E k \in DOMAIN per_project_registry :
                                  /\ per_project_registry[k].list_func = e.list_func
                                  /\ per_project_registry[k].observe_gcp_kind
                                        = topic[m].observe_gcp_kind

\* the first kind of the first project fails to list, a later kind fails
\* to publish, the last kind of the second project is still published
C22Witness ==
    /\ roa.pc = "done"
    /\ roa.response.code = 200
    /\ Len(roa.events) = 6
    /\ roa.events[1].ev = "fault" /\ roa.events[1].at = "list"
    /\ roa.events[2].ev = "fault" /\ roa.events[2].at = "publish"
    /\ roa.events[6].ev = "collected" /\ roa.events[6].records # <<>>

\* C23: when PARENT begins with "projects", list_projects makes one get of
\* PARENT, no list call, and returns the one record {parent, project} of the
\* project got; otherwise it makes the paginated listing of the parent and
\* returns one record {parent, project} per project listed, in order.
C23ListProjects ==
    roa.pc \notin {"idle", "start"} =>
        /\ Len(roa.calls) = 1
        /\ IF PARENT[1] = "projects"
             THEN /\ roa.calls[1] = [call |-> "get", name |-> PARENT]
                  /\ roa.response.body # <<"HttpError">> =>
                        roa.project_records =
                            <<[parent |-> PARENT, project |-> [projectId |-> PARENT[3]]]>>
             ELSE /\ roa.calls[1] = [call |-> "list", parent |-> PARENT]
                  /\ Len(roa.project_records) = Len(roa.listed)
                  /\ \A n \in DOMAIN roa.listed :
                        roa.project_records[n] = [parent |-> PARENT, project |-> roa.listed[n]]

C23Witness ==
    /\ PARENT = <<"projects", "/", "p1">>
    /\ roa.calls = <<[call |-> "get", name |-> PARENT]>>
    /\ Len(roa.project_records) = 1
    /\ roa.response = RestTriggered

----------------------------------------------------------------------------
(* safe_list started from a cursor *)

RECURSIVE CursorTrail(_, _, _)
\* the cursors of the first n list calls of a listing started at cursor c
CursorTrail(u, c, n) ==
    IF n = 0 THEN <<>>
    ELSE <<c>> \o (IF TerminalPage(u[c]) THEN <<>> ELSE CursorTrail(u, u[c].nextPageToken, n - 1))

\* C24: started with pageToken = c in list_kwargs, safe_list issues its
\* first list call with the request as given, cursor c, follows the tokens
\* from there, and when it returns it has yielded the items of the page at c
\* followed by those of the pages after it; no item of the first page of the
\* listing is yielded.
C24ResumeFromCursor ==
    "pageToken" \in DOMAIN initial_kwargs =>
        LET c == initial_kwargs.pageToken
            trail == CursorTrail(upstream, c, Len(calls))
        IN  /\ calls # <<>> => calls[1] = initial_kwargs
            /\ Len(trail) = Len(calls)
            /\ \A n \in DOMAIN calls : calls[n].pageToken = trail[n]
            /\ \A k \in DOMAIN yielded : yielded[k].page # EmptyToken
            /\ \A k \in DOMAIN yielded : \E n \in DOMAIN calls : yielded[k].page = trail[n]
            /\ pc = "returned" => yielded = PagesConcat(upstream, c, Len(calls))
            /\ (pc = "returned" /\ Len(calls) = 1) => yielded = PageRecords(upstream[c])

C24Witness ==
    /\ "pageToken" \in DOMAIN initial_kwargs
    /\ PageRecords(upstream[EmptyToken]) # <<>>
    /\ pc = "returned"
    /\ Len(calls) = 2
    /\ calls[1].pageToken = 1
    /\ Len(yielded) = 2 * MaxItems

----------------------------------------------------------------------------
(* the export layout and the tags of the drained records *)

\* the gs:// URI of an object
ObjectUri(bucket, name) == <<"gs:", "/", "/", bucket, "/">> \o name

\* C25: a record drained from an object under the uri_prefix of an export
\* job is published with the content type that job was submitted for.
C25TagsFollowLayout ==
    \A n \in DOMAIN topic : \A j \in DOMAIN jobs :
        StartsWith(ObjectUri("bucket", topic[n].blob), jobs[j].uri_prefix \o <<"/">>) =>
            topic[n].message.observe_gcp_content_type = jobs[j].content_type

\* every JSON record of object o was passed to publish, by any delivery
AllPassed(o) ==
    LET lines == NonEmptyLines(o.lines)
    IN  \A k \in DOMAIN lines :
            \E n \in DOMAIN topic :
                /\ topic[n].blob = o.name
                /\ topic[n].line = k
                /\ topic[n].message.data = <<"gzip", Redumped(lines[k])>>

UnderDrainDir(o) ==
    /\ "lines" \in DOMAIN o
    /\ o.bucket = "bucket"
    /\ StartsWith(o.name, ResourcePrefix(DrainDir))

\* C27: with deliveries killed at any step and delivered again, a
\* well-formed blob under the prefix disappears only after each of its
\* records was passed to publish, and at the step that deletes the marker no
\* well-formed blob is left under the prefix: every record of every
\* well-formed blob that was under the prefix has been passed to publish.
C27NoRecordLost ==
    [][/\ \A o \in storage :
             (UnderDrainDir(o) /\ WellFormed(o) /\ o \notin storage') => AllPassed(o)
       /\ (Exists("bucket", MarkerName(DrainDir)) /\ ~Exists("bucket", MarkerName(DrainDir))') =>
             \A o \in storage : (UnderDrainDir(o) /\ WellFormed(o)) => AllPassed(o)
       /\ \A o \in storage' : o \in storage]_vars

\* a delivery was killed after it published the first record of the blob
\* with two records, and a later attempt deleted the marker
C27Witness ==
    /\ ~Exists("bucket", MarkerName(DrainDir))
    /\ \E d \in Deliveries : gp[d].attempt > 1 /\ gp[d].response = Processed
    /\ \E n \in DOMAIN topic :
          /\ n < Len(topic)
          /\ topic[n].blob = BucketBlob /\ topic[n].line = 1
          /\ topic[n + 1].blob = BucketBlob /\ topic[n + 1].line = 1
    /\ \E n \in DOMAIN topic : topic[n].blob = BucketBlob /\ topic[n].line = 2

Locked == Exists("bucket", MarkerName(DrainDir))

\* C26: when the export job eventually completes, the queue delivers the
\* task again after every failed attempt and the calls of the last attempts
\* succeed, the marker is eventually deleted and stays deleted: it is
\* deleted once and never written again.
C26EventuallyDone ==
    /\ <>[](~Locked)
    /\ [][~Locked => ~Locked']_vars

\* the job completed during the run, an attempt failed, and a later attempt
\* drained the prefix and deleted the marker
C26Witness ==
    /\ ~Locked
    /\ Get(operations[1], "done", FALSE)
    /\ \E d \in Redelivered :
          /\ gp[d].attempt > 1
          /\ gp[d].response = Processed
          /\ NotesOf(d, "unlock") # <<>>

\* invocation p logged event ev for its j-th content type
HasEvent(p, ev, j) ==
    \E n \in DOMAIN inv[p].events : inv[p].events[n].ev = ev /\ inv[p].events[n].k = j

\* C28: when creating the task fails for content type T after its marker
\* was written, the invocation ends there with
\* ("Failed to export content type T. Error: <error>", 500), the marker is
\* in storage and no task exists for T; and ("Asset export triggered", 200)
\* is returned only when for every requested content type the job was
\* submitted, the marker written and the task enqueued.
C28TaskFailureReported ==
    \A p \in Invocations :
        LET me == inv[p]
        IN  /\ \A n \in DOMAIN me.events :
                  (me.events[n].ev = "fault" /\ me.events[n].at = "task") =>
                      LET j == me.events[n].k
                      IN  /\ n = Len(me.events)
                          /\ me.pc = "done"
                          /\ me.response = [kind |-> "return",
                                            body |-> <<"Failed to export content type ",
                                                       me.content_types[j],
                                                       ". Error: ", "create_task error">>,
                                            code |-> 500]
                          /\ HasEvent(p, "submit", j) /\ HasEvent(p, "marker", j)
                          /\ ~HasEvent(p, "task", j)
                          /\ \A t \in tasks : ~(t.by = p /\ t.k = j)
            /\ me.response = Triggered =>
                  \A j \in DOMAIN me.content_types :
                      /\ HasEvent(p, "submit", j) /\ HasEvent(p, "marker", j)
                      /\ HasEvent(p, "task", j)
                      /\ \E t \in tasks : t.by = p /\ t.k = j

\* the task of the second content type could not be created: the first has
\* job, marker and task, the second job and marker only, the answer is 500
C28Witness ==
    \E p \in Invocations :
        /\ Len(inv[p].content_types) = 2
        /\ HasEvent(p, "task", 1)
        /\ HasEvent(p, "marker", 2)
        /\ inv[p].events[Len(inv[p].events)] = [ev |-> "fault", at |-> "task", k |-> 2]
        /\ inv[p].response.code = 500
        /\ \E o \in storage :
              o.name = MarkerName(MarkerDir(inv[p].timestamp, inv[p].content_types[2]))

----------------------------------------------------------------------------
(* the two safe_list engines side by side *)

\* the page the n-th list call of this listing received
PageOfCall(n) == upstream[Get(calls[n], "pageToken", EmptyToken)]

Ends(page) == Get(page, "nextPageToken", EmptyToken) = EmptyToken

Records(page) == Get(page, "accounts", <<>>)

\* the list calls made so far are the ones the source and the request
\* determine: the request as given, then each next token in turn, never past
\* a page that ends the listing and never more than max_depth
CallsAsDetermined ==
    /\ Len(calls) <= max_depth
    /\ calls # <<>> => calls[1] = initial_kwargs
    /\ \A n \in 2..Len(calls) :
          /\ ~Ends(PageOfCall(n - 1))
          /\ calls[n] = SetKey(calls[n - 1], "pageToken", PageOfCall(n - 1).nextPageToken)

\* the yielded items are the items of the pages received, page after page
\* in the order of the calls, each page whole before the next
YieldedAsDetermined ==
    LET HasRecords(kw) == Records(upstream[Get(kw, "pageToken", EmptyToken)]) # <<>>
        filled == SelectSeq(calls, HasRecords)
        starts == {k \in DOMAIN yielded : yielded[k].n = 1}
        Before(k) == {t \in starts : t <= k}
        First(k) == CHOOSE t \in Before(k) : \A x \in Before(k) : x <= t
        Source(k) == Records(upstream[Get(filled[Cardinality(Before(k))], "pageToken", EmptyToken)])
    IN  /\ \A k \in DOMAIN yielded :
              /\ Before(k) # {}
              /\ Cardinality(Before(k)) <= Len(filled)
              /\ k - First(k) + 1 <= Len(Source(k))
              /\ yielded[k] = Source(k)[k - First(k) + 1]
              /\ (k < Len(yielded) /\ yielded[k + 1].n = 1) => k - First(k) + 1 = Len(Source(k))
        /\ pc # "yield" =>
              /\ Cardinality(starts) = Len(filled)
              /\ yielded # <<>> =>
                    Len(yielded) - First(Len(yielded)) + 1 = Len(Source(Len(yielded)))

\* C29: on the same source, request and max_depth, lib.safe_list and
\* main.safe_list issue the same list calls with the same cursors, yield the
\* same items and end the same way: whichever engine runs, the calls, the
\* items and the ending (return after a page without next token, "max_depth
\* exceeded" after max_depth calls) are the ones the inputs determine; main
\* never pauses, and lib pauses 60 seconds before every call whose index is
\* a positive multiple of 95 and nowhere else.
C29EnginesEquivalent ==
    /\ CallsAsDetermined
    /\ YieldedAsDetermined
    /\ pc = "returned" => calls # <<>> /\ Ends(PageOfCall(Len(calls)))
    /\ pc = "raised" =>
          /\ Len(calls) = max_depth
          /\ calls # <<>> => ~Ends(PageOfCall(Len(calls)))
    /\ engine = "main" => pauses = <<>>
    /\ engine = "lib" =>
          /\ \A k \in DOMAIN pauses :
                pauses[k] = [after |-> k * CallsPerWindow, secs |-> 60]
          /\ \A k \in 1..Len(calls) :
                (k > 1 /\ (k - 1) % CallsPerWindow = 0) =>
                    Len(pauses) >= (k - 1) \div CallsPerWindow

\* main.safe_list read a listing of more than 190 pages to its end without
\* a pause
C29Witness ==
    /\ engine = "main"
    /\ pc = "returned"
    /\ Len(calls) > 2 * CallsPerWindow
    /\ Len(calls) = ThrottlePages
    /\ pauses = <<>>

====
